---------------------------- MODULE Spec2Model ----------------------------
(***************************************************************************)
(* A model of the ZIP reader core: ZipReader.getEntries, Entry.getData,    *)
(* seekSignature and the extra-field decoders.                             *)
(*                                                                         *)
(* An archive is a sequence of bytes (0..255), index 1 holding the byte at *)
(* offset 0.  The parsers below read it the way the code's DataView and    *)
(* Uint8Array calls do, including the RangeError a DataView getter throws  *)
(* when it reads past the end of its buffer and the clamping that          *)
(* subarray/slice apply.                                                   *)
(*                                                                         *)
(* Numbers.  A JavaScript number read by getUint32 or getBigUint64 can     *)
(* exceed the integers TLC computes with, so such a value is carried as a  *)
(* Number: its base-256 digits, most significant first, without leading    *)
(* zeros (<<>> is 0, <<255,255,255,255>> is 0xffffffff).  Two Numbers are  *)
(* equal exactly when the values are.  8- and 16-bit reads are integers.   *)
(***************************************************************************)
EXTENDS Integers, Sequences, FiniteSets, TLC

(***************************************************************************)
(* Program constants (imported from constants.js and workers.js).          *)
(***************************************************************************)
MAX_16_BITS == 65535
MAX_32_BITS == <<255, 255, 255, 255>>                     \* 0xffffffff
COMPRESSION_METHOD_DEFLATE == 8
COMPRESSION_METHOD_STORE == 0
COMPRESSION_METHOD_AES == 99
LOCAL_FILE_HEADER_SIGNATURE == <<80, 75, 3, 4>>           \* 0x504b0304
CENTRAL_FILE_HEADER_SIGNATURE == <<80, 75, 1, 2>>         \* 0x504b0102
END_OF_CENTRAL_DIR_SIGNATURE == <<80, 75, 5, 6>>          \* 0x504b0506
ZIP64_END_OF_CENTRAL_DIR_LOCATOR_SIGNATURE == <<80, 75, 6, 7>>  \* 0x504b0607
ZIP64_END_OF_CENTRAL_DIR_SIGNATURE == <<80, 75, 6, 6>>    \* 0x504b0606

ERR_BAD_FORMAT == "File format is not recognized"
ERR_EOCDR_NOT_FOUND == "End of central directory not found"
ERR_EOCDR_ZIP64_NOT_FOUND == "End of Zip64 central directory not found"
ERR_EOCDR_LOCATOR_ZIP64_NOT_FOUND == "End of Zip64 central directory locator not found"
ERR_CENTRAL_DIRECTORY_NOT_FOUND == "Central directory header not found"
ERR_LOCAL_FILE_HEADER_NOT_FOUND == "Local file header not found"
ERR_EXTRA_FIELD_ZIP64_NOT_FOUND == "Zip64 extra field not found"
ERR_ENCRYPTED == "File contains encrypted entry"
ERR_UNSUPPORTED_ENCRYPTION == "Encryption not supported"
ERR_UNSUPPORTED_COMPRESSION == "Compression method not supported"
CHARSET_UTF8 == "utf-8"
CHARSET_WIN_1252 == "windows-1252"

\* What a DataView getter throws when it reads past the end of its buffer,
\* and what a failed RandomSource read raises.
RangeError == "RangeError"
ReadError == "ReadError"
NoError == "none"

\* JavaScript's undefined.
Undefined == "undefined"

(***************************************************************************)
(* Bytes and Numbers.                                                      *)
(***************************************************************************)
RECURSIVE Norm(_)
Norm(d) == IF d # <<>> /\ Head(d) = 0 THEN Norm(Tail(d)) ELSE d

\* A Number small enough for integer arithmetic (below 2^31).
Fits(n) == Len(n) <= 3 \/ (Len(n) = 4 /\ n[1] < 128)

RECURSIVE ToInt(_)
ToInt(n) == IF n = <<>> THEN 0 ELSE n[Len(n)] + 256 * ToInt(SubSeq(n, 1, Len(n) - 1))

\* The Number of a small integer, and its little-endian bytes in a field
\* of the given width (used to lay archives out).
RECURSIVE DigitsOf(_)
DigitsOf(k) == IF k = 0 THEN <<>> ELSE Append(DigitsOf(k \div 256), k % 256)

Reverse(s) == [i \in 1..Len(s) |-> s[Len(s) + 1 - i]]

Zeros(k) == [i \in 1..k |-> 0]

\* function (DataView.setUint32 / setBigUint64, little endian)
LE(n, width) == Reverse(Zeros(width - Len(n)) \o n)

\* n >= k and n < k for a Number n and an integer k < 2^31
NumGE(n, k) == IF Fits(n) THEN ToInt(n) >= k ELSE TRUE

\* Uint8Array.prototype.subarray / slice(begin, end) with 0 <= begin: both
\* ends are clamped to the array.
Clamp(x, lo, hi) == IF x < lo THEN lo ELSE IF x > hi THEN hi ELSE x

Subarray(a, begin, end) ==
    LET b == Clamp(begin, 0, Len(a))
        e == Clamp(end, 0, Len(a))
    IN IF e <= b THEN <<>> ELSE SubSeq(a, b + 1, e)

\* Body applied to `value`, evaluated once (a LET definition is evaluated
\* anew at each of its uses).
With(value, Body(_)) == CHOOSE r \in {Body(v) : v \in {value}} : TRUE

\* DataView getters: each throws RangeError unless CanGet holds.
CanGet(view, offset, n) == offset >= 0 /\ offset + n <= Len(view)

GetUint8(view, offset) == view[offset + 1]

GetUint16(view, offset) == view[offset + 1] + 256 * view[offset + 2]

\* getUint32(offset, littleEndian) and Number(getBigUint64(offset, true))
GetUint32(view, offset, littleEndian) ==
    LET b == SubSeq(view, offset + 1, offset + 4)
    IN Norm(IF littleEndian THEN Reverse(b) ELSE b)

GetBigUint64(view, offset) == Norm(Reverse(SubSeq(view, offset + 1, offset + 8)))


(***************************************************************************)
(* External collaborators: the RandomSource, CRC-32 and TextDecoder.       *)
(***************************************************************************)
\* RandomSource.readUint8Array(offset, length): exactly `length` bytes of
\* the archive from `offset`, or a failure.
CanRead(data, offset, length) ==
    offset >= 0 /\ length >= 0 /\ offset <= Len(data) - length

ReadUint8Array(data, offset, length) == SubSeq(data, offset + 1, offset + length)

\* CRC-32 (polynomial 0xEDB88320, reflected), on 32-bit words held as
\* sequences of bits, least significant first.
RECURSIVE BitsOf(_, _)
BitsOf(k, width) ==
    IF width = 0 THEN <<>> ELSE <<k % 2>> \o BitsOf(k \div 2, width - 1)

XorBits(a, b) == [i \in 1..32 |-> (a[i] + b[i]) % 2]

CrcPolynomial == BitsOf(32, 8) \o BitsOf(131, 8) \o BitsOf(184, 8) \o BitsOf(237, 8)

CrcShift(crc) ==
    LET shifted == [i \in 1..32 |-> IF i < 32 THEN crc[i + 1] ELSE 0]
    IN IF crc[1] = 1 THEN XorBits(shifted, CrcPolynomial) ELSE shifted

RECURSIVE CrcShifts(_, _)
CrcShifts(crc, k) == IF k = 0 THEN crc ELSE CrcShifts(CrcShift(crc), k - 1)

RECURSIVE CrcAppend(_, _)
CrcAppend(crc, bytes) ==
    IF bytes = <<>> THEN crc
    ELSE CrcAppend(CrcShifts(XorBits(crc, BitsOf(Head(bytes), 32)), 8), Tail(bytes))

RECURSIVE IntOfBits(_)
IntOfBits(bits) == IF bits = <<>> THEN 0 ELSE Head(bits) + 2 * IntOfBits(Tail(bits))

\* new Crc32(); append(bytes); get(), read back as an unsigned 32-bit Number
Crc32(bytes) ==
    LET crc == CrcAppend([i \in 1..32 |-> 1], bytes)
        inv == [i \in 1..32 |-> 1 - crc[i]]
    IN Norm(<<IntOfBits(SubSeq(inv, 25, 32)), IntOfBits(SubSeq(inv, 17, 24)),
              IntOfBits(SubSeq(inv, 9, 16)), IntOfBits(SubSeq(inv, 1, 8))>>)

\* TextDecoder.  A string is the sequence of its code points.
ReplacementChar == 65533

\* windows-1252: bytes 0x80..0x9f map through this table, every other byte
\* to the code point of the same value.
Windows1252High ==
    <<8364, 129, 8218, 402, 8222, 8230, 8224, 8225, 710, 8240, 352, 8249, 338, 141, 381, 143,
      144, 8216, 8217, 8220, 8221, 8226, 8211, 8212, 732, 8482, 353, 8250, 339, 157, 382, 376>>

DecodeWindows1252(bytes) ==
    [i \in 1..Len(bytes) |->
        IF bytes[i] >= 128 /\ bytes[i] < 160 THEN Windows1252High[bytes[i] - 127] ELSE bytes[i]]

\* utf-8, for one- and two-byte sequences: a lead byte 0xc2..0xdf followed
\* by a continuation byte 0x80..0xbf is one code point; any byte that is
\* not part of a well-formed sequence decodes to U+FFFD.  (Names in the
\* model hold no lead byte of a three- or four-byte sequence.)
RECURSIVE DecodeUtf8(_)
DecodeUtf8(bytes) ==
    IF bytes = <<>> THEN <<>>
    ELSE IF Head(bytes) < 128 THEN <<Head(bytes)>> \o DecodeUtf8(Tail(bytes))
    ELSE IF /\ Head(bytes) >= 194 /\ Head(bytes) <= 223 /\ Len(bytes) >= 2
            /\ bytes[2] >= 128 /\ bytes[2] <= 191
         THEN <<(Head(bytes) - 192) * 64 + (bytes[2] - 128)>> \o DecodeUtf8(SubSeq(bytes, 3, Len(bytes)))
    ELSE <<ReplacementChar>> \o DecodeUtf8(Tail(bytes))

\* decodeString(value, encoding)
decodeString(value, encoding) ==
    IF encoding = CHARSET_UTF8 THEN DecodeUtf8(value) ELSE DecodeWindows1252(value)

\* filename.charAt(filename.length - 1) == "/"
Slash == 47

EndsWithSlash(str) == str # <<>> /\ str[Len(str)] = Slash

(***************************************************************************)
(* seekSignature                                                           *)
(***************************************************************************)
\* bytes[index] of a Uint8Array: undefined (here -1) outside the array
ByteAt(bytes, index) == IF index >= 0 /\ index < Len(bytes) THEN bytes[index + 1] ELSE -1

SignatureAt(bytes, indexByte, signatureArray) ==
    /\ ByteAt(bytes, indexByte) = signatureArray[1]
    /\ ByteAt(bytes, indexByte + 1) = signatureArray[2]
    /\ ByteAt(bytes, indexByte + 2) = signatureArray[3]
    /\ ByteAt(bytes, indexByte + 3) = signatureArray[4]

\* A seek that scans the window upwards and keeps the first match.
seekLoopForward(bytes, indexByte, signatureArray) ==
    LET matches == {i \in 0..indexByte : SignatureAt(bytes, i, signatureArray)}
    IN IF matches = {} THEN -1 ELSE CHOOSE i \in matches : \A j \in matches : i <= j

\* The loop of seek: the first index, counting down from indexByte, at
\* which the signature stands; -1 when the loop runs out.
RECURSIVE seekLoop(_, _, _)
seekLoop(bytes, indexByte, signatureArray) ==
    IF indexByte < 0 THEN -1
    ELSE IF SignatureAt(bytes, indexByte, signatureArray) THEN indexByte
    ELSE seekLoop(bytes, indexByte - 1, signatureArray)

\* seek(length): found, the window's offset, the buffer; `index` (the
\* position of the match inside the window) is kept for the properties.
seek(data, signatureArray, minimumBytes, length) ==
    LET offset == Len(data) - length
        bytes == ReadUint8Array(data, offset, length)
        indexByte == seekLoop(bytes, Len(bytes) - minimumBytes, signatureArray)
    IN IF indexByte >= 0
       THEN [found |-> TRUE, offset |-> offset, index |-> indexByte,
             buffer |-> Subarray(bytes, indexByte, indexByte + minimumBytes)]
       ELSE [found |-> FALSE, offset |-> offset, index |-> -1, buffer |-> <<>>]

Min(a, b) == IF a < b THEN a ELSE b

seekSignature(data, signature, minimumBytes, maximumLength) ==
    LET signatureArray == Zeros(4 - Len(signature)) \o signature
        maximumBytes == minimumBytes + maximumLength
        first == seek(data, signatureArray, minimumBytes, minimumBytes)
        second == seek(data, signatureArray, minimumBytes, Min(maximumBytes, Len(data)))
        none == [found |-> FALSE, offset |-> 0, index |-> -1, buffer |-> <<>>]
    IN IF Len(data) < minimumBytes THEN [err |-> ERR_BAD_FORMAT, info |-> none]
       ELSE IF first.found THEN [err |-> NoError, info |-> first]
       ELSE IF second.found THEN [err |-> NoError, info |-> second]
       ELSE [err |-> ERR_EOCDR_NOT_FOUND, info |-> none]

(***************************************************************************)
(* Directory records: Entry and localDirectory.                            *)
(***************************************************************************)
\* A numeric property that has not been assigned (no Number looks like it).
UndefinedNumber == <<-1>>

NoExtraFieldZip64 == [present |-> FALSE, data |-> <<>>, values |-> <<>>]

NoExtraFieldUnicodePath ==
    [present |-> FALSE, data |-> <<>>, version |-> 0, signature |-> <<>>, filename |-> <<>>]

NoExtraFieldAES ==
    [present |-> FALSE, data |-> <<>>, vendorVersion |-> 0, vendorId |-> 0, strength |-> 0,
     originalCompressionMethod |-> 0, compressionMethod |-> 0]

\* A directory object before anything is assigned to it (new Entry(...), or
\* the {} that getData makes its localDirectory).  `at` records where in the
\* central directory the entry was read, for the properties.
NewDirectory ==
    [at |-> -1, version |-> 0, rawBitFlag |-> 0,
     bitFlag |-> [encrypted |-> FALSE, level |-> 0, dataDescriptor |-> FALSE,
                  languageEncodingFlag |-> FALSE, enhancedDeflating |-> Undefined],
     encrypted |-> FALSE, rawLastModDate |-> <<>>, filenameLength |-> 0,
     extraFieldLength |-> 0, commentLength |-> 0, directory |-> FALSE,
     offset |-> UndefinedNumber, rawFilename |-> <<>>, filename |-> <<>>,
     rawExtraField |-> <<>>, extraField |-> <<>>, signature |-> <<>>,
     uncompressedSize |-> UndefinedNumber, compressedSize |-> UndefinedNumber,
     zip64 |-> FALSE, extraFieldZip64 |-> NoExtraFieldZip64,
     extraFieldUnicodePath |-> NoExtraFieldUnicodePath, extraFieldAES |-> NoExtraFieldAES,
     compressionMethod |-> Undefined, rawComment |-> <<>>, comment |-> <<>>]

\* (rawBitFlag & mask) == mask for a one-bit mask
BitSet(value, mask) == (value \div mask) % 2 = 1

\* readCommonHeader, without lastModDate (no property reads it)
readCommonHeader(directory, dataView, offset) ==
    LET rawBitFlag == GetUint16(dataView, offset + 2)
    IN [directory EXCEPT
          !.version = GetUint16(dataView, offset),
          !.rawBitFlag = rawBitFlag,
          !.bitFlag = [encrypted |-> BitSet(rawBitFlag, 1),
                       level |-> (rawBitFlag \div 2) % 4,
                       dataDescriptor |-> BitSet(rawBitFlag, 8),
                       languageEncodingFlag |-> BitSet(rawBitFlag, 2048),
                       enhancedDeflating |-> Undefined],
          !.encrypted = BitSet(rawBitFlag, 1),
          !.rawLastModDate = GetUint32(dataView, offset + 6, TRUE),
          !.filenameLength = GetUint16(dataView, offset + 22),
          !.extraFieldLength = GetUint16(dataView, offset + 24)]

\* The extraField Map: a sequence of [type, data] in insertion order, one
\* element per key.
MapHas(map, type) == \E i \in 1..Len(map) : map[i].type = type

MapGet(map, type) == map[CHOOSE i \in 1..Len(map) : map[i].type = type].data

\* A map that keeps the value a key was first given.
MapSetKeepFirst(map, type, data) ==
    IF MapHas(map, type) THEN map ELSE Append(map, [type |-> type, data |-> data])

\* Map.prototype.set
MapSet(map, type, data) ==
    IF MapHas(map, type)
    THEN [i \in 1..Len(map) |->
            IF map[i].type = type THEN [type |-> type, data |-> data] ELSE map[i]]
    ELSE Append(map, [type |-> type, data |-> data])

\* The while loop of readCommonFooter inside its try block: a getUint16 past
\* the end of the region throws, and the catch ends the loop.
RECURSIVE readExtraFields(_, _, _)
readExtraFields(rawExtraField, offsetExtraField, extraField) ==
    IF ~(offsetExtraField < Len(rawExtraField)) THEN extraField
    ELSE IF ~CanGet(rawExtraField, offsetExtraField, 2) THEN extraField
    ELSE IF ~CanGet(rawExtraField, offsetExtraField + 2, 2) THEN extraField
    ELSE LET type == GetUint16(rawExtraField, offsetExtraField)
             size == GetUint16(rawExtraField, offsetExtraField + 2)
             data == Subarray(rawExtraField, offsetExtraField + 4, offsetExtraField + 4 + size)
         IN readExtraFields(rawExtraField, offsetExtraField + 4 + size,
                            MapSet(extraField, type, data))

EXTRAFIELD_TYPE_ZIP64 == 1
EXTRAFIELD_TYPE_UNICODE_PATH == 28789
EXTRAFIELD_TYPE_AES == 39169

\* readExtraFieldZip64: the k-th property (in the order uncompressedSize,
\* compressedSize, offset) that holds MAX_32_BITS takes values[k]; a
\* property that holds MAX_32_BITS and gets no value throws.
readExtraFieldZip64(data, directory) ==
    LET values == [i \in 1..(Len(data) \div 8) |-> GetBigUint64(data, (i - 1) * 8)]
        properties == <<directory.uncompressedSize, directory.compressedSize, directory.offset>>
        missing(p) == properties[p] = MAX_32_BITS
        \* the index in missingProperties of property p
        indexMissing(p) == Cardinality({q \in 1..(p - 1) : missing(q)}) + 1
        thrown == \E p \in 1..3 : missing(p) /\ indexMissing(p) > Len(values)
        value(p) == IF missing(p) THEN values[indexMissing(p)] ELSE properties[p]
    IN IF thrown
       THEN [err |-> ERR_EXTRA_FIELD_ZIP64_NOT_FOUND, directory |-> directory]
       ELSE [err |-> NoError,
             directory |-> [directory EXCEPT
                 !.zip64 = TRUE,
                 !.extraFieldZip64 = [present |-> TRUE, data |-> data, values |-> values],
                 !.uncompressedSize = value(1),
                 !.compressedSize = value(2),
                 !.offset = value(3)]]

\* readExtraFieldUnicodePath: getUint8(0) and getUint32(1, true) throw on a
\* payload shorter than 5 bytes.
readExtraFieldUnicodePath(data, directory, fileEntry) ==
    IF ~CanGet(data, 0, 1) \/ ~CanGet(data, 1, 4)
    THEN [err |-> RangeError, directory |-> directory]
    ELSE LET signature == GetUint32(data, 1, TRUE)
             filename == DecodeUtf8(Subarray(data, 5, Len(data)))
             view == [present |-> TRUE, data |-> data, version |-> GetUint8(data, 0),
                      signature |-> signature, filename |-> filename]
         IN [err |-> NoError,
             directory |-> [directory EXCEPT
                 !.extraFieldUnicodePath = view,
                 !.filename = IF signature = Crc32(fileEntry.rawFilename)
                              THEN filename ELSE directory.filename]]

\* readExtraFieldAES: getUint8(0), getUint8(2), getUint8(4) and
\* getUint16(5, true) throw on a payload shorter than 7 bytes.
readExtraFieldAES(data, directory, compressionMethod) ==
    IF ~CanGet(data, 0, 1) \/ ~CanGet(data, 2, 1) \/ ~CanGet(data, 4, 1) \/ ~CanGet(data, 5, 2)
    THEN [err |-> RangeError, directory |-> directory]
    ELSE [err |-> NoError,
          directory |-> [directory EXCEPT
              !.extraFieldAES = [present |-> TRUE, data |-> data,
                                 vendorVersion |-> GetUint8(data, 0),
                                 vendorId |-> GetUint8(data, 2),
                                 strength |-> GetUint8(data, 4),
                                 originalCompressionMethod |-> compressionMethod,
                                 compressionMethod |-> GetUint16(data, 5)],
              !.compressionMethod = GetUint16(data, 5)]]

\* The last statement of readCommonFooter
setEnhancedDeflating(directory) ==
    IF directory.compressionMethod = 8
    THEN [directory EXCEPT !.bitFlag.enhancedDeflating = ~BitSet(directory.rawBitFlag, 16)]
    ELSE directory

\* readCommonFooter(fileEntry, directory, dataView, offset)
readCommonFooter(fileEntry, directory, dataView, offset) ==
    LET extraField == readExtraFields(directory.rawExtraField, 0, <<>>)
        compressionMethod == GetUint16(dataView, offset + 4)
        d0 == [directory EXCEPT
                 !.extraField = extraField,
                 !.signature = GetUint32(dataView, offset + 10, TRUE),
                 !.uncompressedSize = GetUint32(dataView, offset + 18, TRUE),
                 !.compressedSize = GetUint32(dataView, offset + 14, TRUE)]
        r1 == IF MapHas(extraField, EXTRAFIELD_TYPE_ZIP64)
              THEN readExtraFieldZip64(MapGet(extraField, EXTRAFIELD_TYPE_ZIP64), d0)
              ELSE [err |-> NoError, directory |-> d0]
        r2 == IF MapHas(extraField, EXTRAFIELD_TYPE_UNICODE_PATH)
              THEN readExtraFieldUnicodePath(MapGet(extraField, EXTRAFIELD_TYPE_UNICODE_PATH),
                                             r1.directory, fileEntry)
              ELSE r1
        r3 == IF MapHas(extraField, EXTRAFIELD_TYPE_AES)
              THEN readExtraFieldAES(MapGet(extraField, EXTRAFIELD_TYPE_AES),
                                     r2.directory, compressionMethod)
              ELSE [err |-> NoError,
                    directory |-> [r2.directory EXCEPT !.compressionMethod = compressionMethod]]
    IN IF r1.err # NoError THEN r1
       ELSE IF r2.err # NoError THEN r2
       ELSE IF r3.err # NoError THEN r3
       ELSE [err |-> NoError, directory |-> setEnhancedDeflating(r3.directory)]

\* x || CHARSET_WIN_1252
OrDefault(x, default) == IF x = Undefined \/ x = "" THEN default ELSE x

\* A header reader that takes the directory flag from the attribute bit
\* alone.
readFixedHeaderBitOnly(directoryDataArray, offset, options) ==
    With(readCommonHeader([NewDirectory EXCEPT !.at = offset,
                               !.compressedSize = <<>>, !.uncompressedSize = <<>>],
                          directoryDataArray, offset + 6), LAMBDA e :
    With(Subarray(directoryDataArray, offset + 46, offset + 46 + e.filenameLength),
         LAMBDA rawFilename :
        [e EXCEPT
           !.commentLength = GetUint16(directoryDataArray, offset + 32),
           !.directory = BitSet(GetUint8(directoryDataArray, offset + 38), 16),
           !.offset = GetUint32(directoryDataArray, offset + 42, TRUE),
           !.rawFilename = rawFilename,
           !.filename =
               decodeString(rawFilename,
                            IF e.bitFlag.languageEncodingFlag THEN CHARSET_UTF8
                            ELSE OrDefault(options.filenameEncoding, CHARSET_WIN_1252)),
           !.rawExtraField =
               Subarray(directoryDataArray, offset + 46 + e.filenameLength,
                        offset + 46 + e.filenameLength + e.extraFieldLength)]))

\* Lines 107-118 of the loop of getEntries: the fixed part of the central
\* file header at `offset`, the name and the raw extra field.
readFixedHeader(directoryDataArray, offset, options) ==
    With(readCommonHeader([NewDirectory EXCEPT !.at = offset,
                               !.compressedSize = <<>>, !.uncompressedSize = <<>>],
                          directoryDataArray, offset + 6), LAMBDA e :
    With(Subarray(directoryDataArray, offset + 46, offset + 46 + e.filenameLength),
         LAMBDA rawFilename :
    With(decodeString(rawFilename,
                      IF e.bitFlag.languageEncodingFlag THEN CHARSET_UTF8
                      ELSE OrDefault(options.filenameEncoding, CHARSET_WIN_1252)),
         LAMBDA filename :
        [e EXCEPT
           !.commentLength = GetUint16(directoryDataArray, offset + 32),
           !.directory = \/ BitSet(GetUint8(directoryDataArray, offset + 38), 16)
                         \/ EndsWithSlash(filename),
           !.offset = GetUint32(directoryDataArray, offset + 42, TRUE),
           !.rawFilename = rawFilename,
           !.filename = filename,
           !.rawExtraField =
               Subarray(directoryDataArray, offset + 46 + e.filenameLength,
                        offset + 46 + e.filenameLength + e.extraFieldLength)])))

\* Lines 120-122: the comment.
readComment(e, directoryDataArray, offset, options) ==
    With(Subarray(directoryDataArray,
                  offset + 46 + e.filenameLength + e.extraFieldLength,
                  offset + 46 + e.filenameLength + e.extraFieldLength + e.commentLength),
         LAMBDA rawComment :
        [e EXCEPT
           !.rawComment = rawComment,
           !.comment = decodeString(rawComment,
                                    IF e.bitFlag.languageEncodingFlag THEN CHARSET_UTF8
                                    ELSE OrDefault(options.commentEncoding, CHARSET_WIN_1252))])

\* One turn of the loop of getEntries (lines 103-124): the entry read from
\* the central file header at `offset` of the directory buffer and the
\* offset of the next header, or the error thrown.  A getter of the
\* DataView throws RangeError when the 46 bytes are not all there.
readEntry(directoryDataArray, offset, options) ==
    IF ~CanGet(directoryDataArray, offset, 4)
    THEN [err |-> RangeError, entry |-> NewDirectory, next |-> offset]
    ELSE IF GetUint32(directoryDataArray, offset, FALSE) # CENTRAL_FILE_HEADER_SIGNATURE
    THEN [err |-> ERR_CENTRAL_DIRECTORY_NOT_FOUND, entry |-> NewDirectory, next |-> offset]
    ELSE IF ~CanGet(directoryDataArray, offset, 46)
    THEN [err |-> RangeError, entry |-> NewDirectory, next |-> offset]
    ELSE
      With(readFixedHeader(directoryDataArray, offset, options), LAMBDA fileEntry :
      With(readCommonFooter(fileEntry, fileEntry, directoryDataArray, offset + 6),
           LAMBDA footer :
        IF footer.err # NoError
        THEN [err |-> footer.err, entry |-> NewDirectory, next |-> offset]
        ELSE With(readComment(footer.directory, directoryDataArray, offset, options),
                  LAMBDA e :
               [err |-> NoError, entry |-> e,
                next |-> offset + 46 + e.filenameLength + e.extraFieldLength
                                + e.commentLength])))

\* A loop that puts each entry it reads in front of the ones read before.
RECURSIVE readEntriesPrepend(_, _, _, _, _, _)
readEntriesPrepend(directoryDataArray, filesLength, indexFile, offset, entries, options) ==
    IF ~(indexFile < filesLength) THEN [err |-> NoError, entries |-> entries]
    ELSE With(readEntry(directoryDataArray, offset, options), LAMBDA r :
           IF r.err # NoError THEN [err |-> r.err, entries |-> <<>>]
           ELSE readEntriesPrepend(directoryDataArray, filesLength, indexFile + 1, r.next,
                                   <<r.entry>> \o entries, options))

\* The loop of getEntries from turn indexFile on: the entries, or the error
\* thrown.
RECURSIVE readEntries(_, _, _, _, _, _)
readEntries(directoryDataArray, filesLength, indexFile, offset, entries, options) ==
    IF ~(indexFile < filesLength) THEN [err |-> NoError, entries |-> entries]
    ELSE With(readEntry(directoryDataArray, offset, options), LAMBDA r :
           IF r.err # NoError THEN [err |-> r.err, entries |-> <<>>]
           ELSE readEntries(directoryDataArray, filesLength, indexFile + 1, r.next,
                            Append(entries, r.entry), options))

(***************************************************************************)
(* Archives.  An archive is laid out from a description of its records:    *)
(* the local file headers, the central directory, the ZIP64 end of central *)
(* directory record and its locator when asked for, the end of central     *)
(* directory record and the archive comment.  Field offsets are those the  *)
(* readers above use.                                                      *)
(***************************************************************************)
U16(k) == <<k % 256, k \div 256>>

RECURSIVE Concat(_)
Concat(seqs) == IF seqs = <<>> THEN <<>> ELSE Head(seqs) \o Concat(Tail(seqs))

BadSignature == <<80, 75, 9, 9>>

\* A record with nothing special about it.
PlainRecord(name) ==
    [name |-> name, flags |-> 0, localFlags |-> 0, method |-> 0, attribute |-> 0,
     uncompressedSize |-> <<>>, compressedSize |-> <<>>, offsetSentinel |-> FALSE,
     extra |-> <<>>, comment |-> <<>>, localSignatureOk |-> TRUE, payload |-> <<>>]

\* The 30-byte local file header, the name and the entry's data after it.
LocalHeader(rec) ==
    (IF rec.localSignatureOk THEN LOCAL_FILE_HEADER_SIGNATURE ELSE BadSignature)
    \o U16(20) \o U16(rec.localFlags) \o U16(rec.method) \o Zeros(4) \o Zeros(4)
    \o LE(rec.compressedSize, 4) \o LE(rec.uncompressedSize, 4)
    \o U16(Len(rec.name)) \o U16(0) \o rec.name \o rec.payload

\* The 46-byte central file header, the name, the extra field and the comment.
CentralHeader(rec, localOffset) ==
    CENTRAL_FILE_HEADER_SIGNATURE \o U16(20) \o U16(20) \o U16(rec.flags) \o U16(rec.method)
    \o Zeros(4) \o Zeros(4) \o LE(rec.compressedSize, 4) \o LE(rec.uncompressedSize, 4)
    \o U16(Len(rec.name)) \o U16(Len(rec.extra)) \o U16(Len(rec.comment))
    \o Zeros(2) \o Zeros(2) \o <<rec.attribute, 0, 0, 0>>
    \o (IF rec.offsetSentinel THEN MAX_32_BITS ELSE LE(DigitsOf(localOffset), 4))
    \o rec.name \o rec.extra \o rec.comment

LocalHeaders(recs) == Concat([i \in 1..Len(recs) |-> LocalHeader(recs[i])])

LocalOffset(recs, i) == Len(LocalHeaders(SubSeq(recs, 1, i - 1)))

CentralDirectory(recs) ==
    Concat([i \in 1..Len(recs) |-> CentralHeader(recs[i], LocalOffset(recs, i))])

\* The offset at which record i's central file header starts, relative to
\* the start of the central directory.
CentralOffset(recs, i) == Len(CentralDirectory(SubSeq(recs, 1, i - 1)))

Zip64EndOfCentralDirectory(declared, size, start, signatureOk) ==
    (IF signatureOk THEN ZIP64_END_OF_CENTRAL_DIR_SIGNATURE ELSE BadSignature)
    \o LE(DigitsOf(44), 8) \o U16(45) \o U16(45) \o Zeros(4) \o Zeros(4)
    \o LE(DigitsOf(declared), 8) \o LE(DigitsOf(declared), 8)
    \o LE(DigitsOf(size), 8) \o LE(DigitsOf(start), 8)

Zip64Locator(zip64Offset, signatureOk) ==
    (IF signatureOk THEN ZIP64_END_OF_CENTRAL_DIR_LOCATOR_SIGNATURE ELSE BadSignature)
    \o Zeros(4) \o LE(DigitsOf(zip64Offset), 8) \o LE(DigitsOf(1), 4)

EndOfCentralDirectory(declared, size, start, comment) ==
    END_OF_CENTRAL_DIR_SIGNATURE \o Zeros(2) \o Zeros(2) \o U16(declared) \o U16(declared)
    \o LE(size, 4) \o LE(start, 4) \o U16(Len(comment)) \o comment

\* mode: "none", or what makes the reader switch to ZIP64: "count" (the
\* entry count of the EOCD is 0xffff) or "offset" (its offset is 0xffffffff).
Archive(recs, declared, mode, locatorOk, zip64Ok, comment) ==
    LET locals == LocalHeaders(recs)
        central == CentralDirectory(recs)
        start == Len(locals)
        zip64Offset == start + Len(central)
    IN locals \o central
       \o (IF mode = "none" THEN <<>>
           ELSE Zip64EndOfCentralDirectory(declared, Len(central), start, zip64Ok)
                \o Zip64Locator(zip64Offset, locatorOk))
       \o EndOfCentralDirectory(
              IF mode = "count" THEN MAX_16_BITS ELSE declared,
              DigitsOf(Len(central)),
              IF mode = "offset" THEN MAX_32_BITS ELSE DigitsOf(start),
              comment)

\* Where the EOCD signature of such an archive stands.
EocdPosition(recs, mode) ==
    Len(LocalHeaders(recs)) + Len(CentralDirectory(recs)) + (IF mode = "none" THEN 0 ELSE 76)

(***************************************************************************)
(* The archives the model reads.                                           *)
(***************************************************************************)
\* Bounds of the model.
MaxEntries == 2      \* records in a central directory
MaxComment == 1      \* bytes of archive comment
MaxBlocks == 2       \* TLV blocks in an extra-field region (before its tail)
MaxSeekSize == 8     \* bytes of a source given to seekSignature on its own
MaxSeekExtra == 2    \* maximumLength given to seekSignature on its own

TLV(type, payload) == U16(type) \o U16(Len(payload)) \o payload

NameA == <<97>>              \* "a"
NameDir == <<97, 47>>        \* "a/"
NameAccent == <<195, 169>>   \* "é" in utf-8, two characters in windows-1252
Names == {NameA, NameDir, NameAccent}

\* The three 64-bit values of a full ZIP64 block: 2^32, 9 and 0.
Zip64Values == <<LE(<<1, 0, 0, 0, 0>>, 8), LE(<<9>>, 8), LE(<<>>, 8)>>

Zip64Block(k) == TLV(EXTRAFIELD_TYPE_ZIP64, Concat(SubSeq(Zip64Values, 1, k)))

UnicodePathBlock(signature, name) ==
    TLV(EXTRAFIELD_TYPE_UNICODE_PATH, <<1>> \o LE(signature, 4) \o name)

AESBlock(strength, method) ==
    TLV(EXTRAFIELD_TYPE_AES, <<2, 0, 65, 69, strength>> \o U16(method))

\* Blocks of an extra-field region: ZIP64 with 0 to 3 values and with
\* another first value, an unknown tag with two payloads, Unicode Path and
\* AES with a whole payload and with one too short for their decoders.
ExtraBlocks ==
    {Zip64Block(k) : k \in 0..3}
    \cup {TLV(EXTRAFIELD_TYPE_ZIP64, LE(<<7>>, 8)),
          TLV(10, <<1, 2>>), TLV(10, <<3>>),
          UnicodePathBlock(Crc32(NameA), <<98>>), TLV(EXTRAFIELD_TYPE_UNICODE_PATH, <<1, 0, 0>>),
          AESBlock(3, 8), TLV(EXTRAFIELD_TYPE_AES, <<2, 0>>)}

\* What may follow the blocks: nothing, a TLV header cut short, a block
\* whose declared size runs past the end of the region.
ExtraTails == {<<>>, <<10, 0, 9>>, <<10, 0, 4, 0, 5>>}

RECURSIVE BlockSeqs(_)
BlockSeqs(k) ==
    IF k = 0 THEN {<<>>}
    ELSE BlockSeqs(k - 1) \cup {b \o rest : b \in ExtraBlocks, rest \in BlockSeqs(k - 1)}

ExtraRegions == {blocks \o tail : blocks \in BlockSeqs(MaxBlocks), tail \in ExtraTails}

Sentinel(on) == IF on THEN MAX_32_BITS ELSE <<>>

PlainRecords(n) == [i \in 1..n |-> PlainRecord(<<96 + i>>)]

Comments == {[i \in 1..k |-> 33] : k \in 0..MaxComment}

NoOptions ==
    [password |-> Undefined, filenameEncoding |-> Undefined, commentEncoding |-> Undefined,
     checkSignature |-> Undefined]

Layout(recs, declared, mode, locatorOk, zip64Ok, comment) ==
    [recs |-> recs, declared |-> declared, mode |-> mode, locatorOk |-> locatorOk,
     zip64Ok |-> zip64Ok, comment |-> comment]

\* Directory structure: 0..MaxEntries plain records, a declared count that
\* is right, one short or one long, each ZIP64 mode with a good or a bad
\* locator and ZIP64 EOCD signature, an archive comment.
DeclaredCounts(n) == {d \in (n - 1)..(n + 1) : d >= 0}

StructureLayouts ==
    {Layout(PlainRecords(p[1]), p[2], "none", TRUE, TRUE, comment) :
        p \in {q \in (0..MaxEntries) \X (0..(MaxEntries + 1)) : q[2] \in DeclaredCounts(q[1])},
        comment \in Comments}
    \cup {Layout(PlainRecords(p[1]), p[2], mode, locatorOk, zip64Ok, comment) :
        p \in {q \in (0..MaxEntries) \X (0..(MaxEntries + 1)) : q[2] \in DeclaredCounts(q[1])},
        mode \in {"count", "offset"}, locatorOk \in BOOLEAN, zip64Ok \in BOOLEAN,
        comment \in Comments}

\* Sources that are no archive: shorter than an EOCD, or without its signature.
RawLayouts == {Layout(<<>>, 0, "raw", TRUE, TRUE, Zeros(k)) : k \in {0, 21, 22, 30}}

\* One record whose 32-bit sizes and offset hold the sentinel or not, with
\* every extra-field region.
ExtraLayouts ==
    {Layout(<<[PlainRecord(NameA) EXCEPT
                 !.uncompressedSize = Sentinel(u), !.compressedSize = Sentinel(c),
                 !.offsetSentinel = o, !.extra = extra]>>, 1, "none", TRUE, TRUE, <<>>) :
        u \in BOOLEAN, c \in BOOLEAN, o \in BOOLEAN, extra \in ExtraRegions}

\* One record: each name, with and without the language encoding flag and
\* the directory attribute, without and with a Unicode Path block whose
\* signature is or is not the CRC-32 of the raw name.
NameExtras(name) ==
    {<<>>} \cup {UnicodePathBlock(signature, other) :
                    signature \in {Crc32(name), <<1, 2, 3, 4>>}, other \in Names}

NameLayouts ==
    {Layout(<<[PlainRecord(name) EXCEPT !.flags = flags, !.attribute = attribute,
                                         !.extra = extra]>>, 1, "none", TRUE, TRUE, <<>>) :
        name \in Names, flags \in {0, 2048}, attribute \in {0, 16},
        extra \in UNION {NameExtras(n) : n \in Names}}

\* One record with three bytes of data: the encryption bit of the central
\* and of the local header, each compression method, without and with an
\* AES block, a good or a bad local file header signature.
Methods == {COMPRESSION_METHOD_STORE, COMPRESSION_METHOD_DEFLATE, COMPRESSION_METHOD_AES, 12}

DataLayouts ==
    {Layout(<<[PlainRecord(NameA) EXCEPT
                 !.flags = flags, !.localFlags = localFlags, !.method = method,
                 !.extra = extra, !.localSignatureOk = signatureOk,
                 !.compressedSize = <<3>>, !.uncompressedSize = <<3>>,
                 !.payload = <<1, 2, 3>>]>>, 1, "none", TRUE, TRUE, <<>>) :
        flags \in {0, 1}, localFlags \in {0, 1}, method \in Methods,
        extra \in {<<>>, AESBlock(3, 8), AESBlock(1, 8), AESBlock(3, 12)},
        signatureOk \in BOOLEAN}
    \cup {Layout(PlainRecords(1), 1, mode, TRUE, TRUE, <<>>) : mode \in {"count", "offset"}}

Passwords == {Undefined, "", "secret"}

\* Sources and arguments for seekSignature on its own.
SeekBytes == {1, 2}

SeekSources == UNION {[1..k -> SeekBytes] : k \in 0..MaxSeekSize}

SeekSignatures == {<<1, 1, 1, 1>>, <<1, 2, 1, 2>>, <<1, 1, 1, 2>>}

SeekParams ==
    [signature : SeekSignatures, minimumBytes : 4..6, maximumLength : 0..MaxSeekExtra]

\* Archives whose EOCD or ZIP64 EOCD places the central directory where it
\* is not.  Mode "start": no ZIP64, the offset field of the EOCD is `field`
\* (a Number).  Mode "size": ZIP64 by the entry count, the size field of the
\* ZIP64 EOCD is `field` (an integer), so that the start the reader computes
\* is the offset of the ZIP64 EOCD less `field`.
PlacedArchive(recs, declared, mode, field) ==
    LET locals == LocalHeaders(recs)
        central == CentralDirectory(recs)
    IN locals \o central
       \o (IF mode = "start" THEN <<>>
           ELSE Zip64EndOfCentralDirectory(declared, field, Len(locals), TRUE)
                \o Zip64Locator(Len(locals) + Len(central), TRUE))
       \o EndOfCentralDirectory(
              IF mode = "start" THEN declared ELSE MAX_16_BITS,
              DigitsOf(Len(central)),
              IF mode = "start" THEN field ELSE DigitsOf(Len(locals)),
              <<>>)

PlacedLayout(recs, mode, field) ==
    Layout(recs, Len(recs), mode, TRUE, TRUE, <<>>) @@ [field |-> field]

\* Offsets of the EOCD: the right one, the three around the size of the
\* archive, and two that no small archive reaches.
StartFields(recs) ==
    LET size == Len(LocalHeaders(recs)) + Len(CentralDirectory(recs)) + 22
    IN {DigitsOf(Len(LocalHeaders(recs))), DigitsOf(size - 1), DigitsOf(size),
        DigitsOf(size + 1), <<128, 0, 0, 0>>, <<255, 255, 255, 254>>}

\* Sizes of the ZIP64 EOCD: the right one, and those that put the start at
\* 1, at 0, just below 0 and far below 0.
SizeFields(recs) ==
    LET offset == Len(LocalHeaders(recs)) + Len(CentralDirectory(recs))
    IN {k \in {Len(CentralDirectory(recs)), offset - 1, offset, offset + 1, 2 * offset + 100} :
           k >= 0}

PlacedLayouts ==
    UNION {{PlacedLayout(PlainRecords(n), "start", field) :
                field \in StartFields(PlainRecords(n))}
           \cup {PlacedLayout(PlainRecords(n), "size", field) :
                     field \in SizeFields(PlainRecords(n))} : n \in 0..1}

ArchiveOf(lay) ==
    IF lay.mode = "raw" THEN lay.comment
    ELSE IF lay.mode \in {"start", "size"}
    THEN PlacedArchive(lay.recs, lay.declared, lay.mode, lay.field)
    ELSE Archive(lay.recs, lay.declared, lay.mode, lay.locatorOk, lay.zip64Ok, lay.comment)

(***************************************************************************)
(* State.                                                                  *)
(***************************************************************************)
VARIABLES
    archive,            \* the bytes of the RandomSource; reader.size is its length
    layout,             \* how the archive was laid out (read by the properties only)
    options,            \* the options given to the ZipReader
    readerInitialized,  \* reader.initialized
    seekParams,         \* signature, minimumBytes and maximumLength of the seekSignature call
    pc,                 \* where the running operation stands
    err,                \* the error thrown, NoError while there is none
    directoryInfo,      \* what seekSignature returned
    zip64,              \* getEntries' zip64
    dataLength,         \* getEntries' dataLength
    filesLength,        \* getEntries' filesLength
    reads,              \* the reads getEntries issued after the seek, <<offset, length>> each
    entries,            \* what getEntries returned
    call,               \* the running getData call
    codec,              \* the codec getData created
    writer              \* the sink given to getData

vars == <<archive, layout, options, readerInitialized, seekParams, pc, err, directoryInfo,
          zip64, dataLength, filesLength, reads, entries, call, codec, writer>>

NoDirectoryInfo == [found |-> FALSE, offset |-> 0, index |-> -1, buffer |-> <<>>]

NoCall == [index |-> 0, options |-> NoOptions]

NoCodec == [created |-> FALSE]

NewWriter == [initialized |-> FALSE, chunks |-> 0, finished |-> FALSE]

EocdSeek ==
    [signature |-> END_OF_CENTRAL_DIR_SIGNATURE, minimumBytes |-> 22, maximumLength |-> MAX_16_BITS]

InitState(data, lay, opts, params) ==
    /\ archive = data
    /\ layout = lay
    /\ options = opts
    /\ readerInitialized = FALSE
    /\ seekParams = params
    /\ pc = "start"
    /\ err = NoError
    /\ directoryInfo = NoDirectoryInfo
    /\ zip64 = FALSE
    /\ dataLength = 0
    /\ filesLength = 0
    /\ reads = <<>>
    /\ entries = <<>>
    /\ call = NoCall
    /\ codec = NoCodec
    /\ writer = NewWriter

InitWith(lay, opts) == InitState(ArchiveOf(lay), lay, opts, EocdSeek)

Init ==
    \/ \E lay \in StructureLayouts \cup RawLayouts \cup ExtraLayouts \cup PlacedLayouts :
          InitWith(lay, NoOptions)
    \/ \E lay \in NameLayouts, encoding \in {Undefined, CHARSET_UTF8} :
          InitWith(lay, [NoOptions EXCEPT !.filenameEncoding = encoding])

(***************************************************************************)
(* ZipReader.getEntries                                                    *)
(***************************************************************************)
Fail(error) ==
    /\ pc' = "failed"
    /\ err' = error

\* A Number as an integer, for the offsets and counts getEntries computes
\* with: a value of 2^31 or more stands as the largest integer (it exceeds
\* every size and count of the model, which is all the code asks of it).
MaxInt == 2147483646 + 1

AsInt(n) == IF Fits(n) THEN ToInt(n) ELSE MaxInt

\* Lines 71-79: reader.init(), seekSignature, the two fields of the EOCD and
\* the choice of ZIP64 mode.
GetEntriesSeek ==
    /\ pc = "start"
    /\ readerInitialized' = TRUE
    /\ \E sought \in {seekSignature(archive, seekParams.signature, seekParams.minimumBytes,
                                     seekParams.maximumLength)} :
       LET directoryDataView == sought.info.buffer
       IN IF sought.err # NoError
          THEN /\ Fail(sought.err)
               /\ UNCHANGED <<directoryInfo, zip64, dataLength, filesLength>>
          ELSE /\ directoryInfo' = sought.info
               /\ dataLength' = AsInt(GetUint32(directoryDataView, 16, TRUE))
               /\ filesLength' = GetUint16(directoryDataView, 8)
               /\ zip64' = \/ GetUint32(directoryDataView, 16, TRUE) = MAX_32_BITS
                           \/ filesLength' = MAX_16_BITS
               /\ pc' = IF zip64' THEN "locator" ELSE "directory"
               /\ err' = NoError
    /\ UNCHANGED <<archive, layout, options, seekParams, reads, entries, call, codec, writer>>

\* Lines 81-86: the ZIP64 EOCD locator.
GetEntriesLocator ==
    /\ pc = "locator"
    /\ LET offset == directoryInfo.offset - 20
       IN /\ reads' = Append(reads, <<offset, 20>>)
          /\ IF ~CanRead(archive, offset, 20)
             THEN Fail(ReadError) /\ UNCHANGED dataLength
             ELSE LET directoryLocatorView == ReadUint8Array(archive, offset, 20)
                  IN IF GetUint32(directoryLocatorView, 0, FALSE)
                            # ZIP64_END_OF_CENTRAL_DIR_LOCATOR_SIGNATURE
                     THEN Fail(ERR_EOCDR_ZIP64_NOT_FOUND) /\ UNCHANGED dataLength
                     ELSE /\ dataLength' = AsInt(GetBigUint64(directoryLocatorView, 8))
                          /\ pc' = "zip64"
                          /\ err' = NoError
    /\ UNCHANGED <<archive, layout, options, readerInitialized, seekParams, directoryInfo,
                   zip64, filesLength, entries, call, codec, writer>>

\* Lines 87-93: the ZIP64 EOCD.  dataLength becomes the offset of the ZIP64
\* EOCD less the size of the central directory, an integer that may be
\* negative.
GetEntriesZip64 ==
    /\ pc = "zip64"
    /\ LET offset == dataLength
       IN /\ reads' = Append(reads, <<offset, 56>>)
          /\ IF ~CanRead(archive, offset, 56)
             THEN Fail(ReadError) /\ UNCHANGED <<dataLength, filesLength>>
             ELSE LET directoryDataView == ReadUint8Array(archive, offset, 56)
                  IN IF GetUint32(directoryDataView, 0, FALSE)
                            # ZIP64_END_OF_CENTRAL_DIR_SIGNATURE
                     THEN Fail(ERR_EOCDR_LOCATOR_ZIP64_NOT_FOUND)
                          /\ UNCHANGED <<dataLength, filesLength>>
                     ELSE /\ filesLength' = AsInt(GetBigUint64(directoryDataView, 24))
                          /\ dataLength' =
                                dataLength - AsInt(GetBigUint64(directoryDataView, 40))
                          /\ pc' = "directory"
                          /\ err' = NoError
    /\ UNCHANGED <<archive, layout, options, readerInitialized, seekParams, directoryInfo,
                   zip64, entries, call, codec, writer>>

\* A sanity check that lets the start stand at the very end of the archive.
directoryMisplacedBeyondEnd(start, size, count, isZip64) ==
    start < 0 \/ (~isZip64 /\ (start > size \/ count >= MAX_16_BITS))

\* Line 95: the condition of the sanity check.
directoryMisplaced(start, size, count, isZip64) ==
    start < 0 \/ (~isZip64 /\ (start >= size \/ count >= MAX_16_BITS))

\* Lines 95-126: the sanity check, the read of the central directory and
\* the walk over it.
GetEntriesDirectory ==
    /\ pc = "directory"
    /\ IF directoryMisplaced(dataLength, Len(archive), filesLength, zip64)
       THEN Fail(ERR_BAD_FORMAT) /\ UNCHANGED <<reads, entries>>
       ELSE /\ reads' = Append(reads, <<dataLength, Len(archive) - dataLength>>)
            /\ IF ~CanRead(archive, dataLength, Len(archive) - dataLength)
               THEN Fail(ReadError) /\ UNCHANGED entries
               ELSE \E directoryDataArray \in
                            {ReadUint8Array(archive, dataLength, Len(archive) - dataLength)} :
                    \E walked \in
                            {readEntries(directoryDataArray, filesLength, 0, 0, <<>>, options)} :
                       IF walked.err # NoError
                       THEN Fail(walked.err) /\ UNCHANGED entries
                       ELSE /\ entries' = walked.entries
                            /\ pc' = "entries"
                            /\ err' = NoError
    /\ UNCHANGED <<archive, layout, options, readerInitialized, seekParams, directoryInfo,
                   zip64, dataLength, filesLength, call, codec, writer>>

Next ==
    \/ GetEntriesSeek
    \/ GetEntriesLocator
    \/ GetEntriesZip64
    \/ GetEntriesDirectory

Spec == Init /\ [][Next]_vars

(***************************************************************************)
(* Entry.getData                                                           *)
(***************************************************************************)
\* !value of a password: undefined and the empty string are falsy
Falsy(value) == value = Undefined \/ value = ""

\* processData reads the entry's data in chunks of this size (engine.js).
ChunkSize == 524288

\* Lines 158-162: reader.init() and the read of the local file header of
\* entry `index`, with the options of the call.
GetDataRead(index, callOptions) ==
    /\ pc = "entries"
    /\ index \in 1..Len(entries)
    /\ readerInitialized' = TRUE
    /\ LET offset == AsInt(entries[index].offset)
       IN IF ~CanRead(archive, offset, 30)
          THEN /\ Fail(ReadError)
               /\ call' = [index |-> index, options |-> callOptions]
          ELSE /\ call' = [index |-> index, options |-> callOptions,
                           dataArray |-> ReadUint8Array(archive, offset, 30)]
               /\ pc' = "header"
               /\ err' = NoError
    /\ UNCHANGED <<archive, layout, options, seekParams, directoryInfo, zip64, dataLength,
                   filesLength, reads, entries, codec, writer>>

\* Lines 180-184 of getData: the localDirectory.
readLocalDirectory(this, dataArray) ==
    With(readCommonHeader(NewDirectory, dataArray, 4), LAMBDA localDirectory :
        readCommonFooter(this,
            [localDirectory EXCEPT !.rawExtraField =
                Subarray(dataArray,
                         AsInt(this.offset) + 30 + localDirectory.filenameLength,
                         AsInt(this.offset) + 30 + localDirectory.filenameLength
                             + localDirectory.extraFieldLength)],
            dataArray, 4))

\* Checks that look at the local signature only after the password.
getDataErrorSignatureLast(this, dataArray, inputPassword) ==
    IF this.extraFieldAES.present
       /\ this.extraFieldAES.originalCompressionMethod # COMPRESSION_METHOD_AES
    THEN ERR_UNSUPPORTED_COMPRESSION
    ELSE IF this.extraFieldAES.present /\ this.extraFieldAES.strength # 3
    THEN ERR_UNSUPPORTED_ENCRYPTION
    ELSE IF this.compressionMethod # COMPRESSION_METHOD_STORE
            /\ this.compressionMethod # COMPRESSION_METHOD_DEFLATE
    THEN ERR_UNSUPPORTED_COMPRESSION
    ELSE With(readLocalDirectory(this, dataArray), LAMBDA local :
           IF local.err # NoError THEN local.err
           ELSE IF this.bitFlag.encrypted /\ local.directory.bitFlag.encrypted
                   /\ Falsy(inputPassword)
           THEN ERR_ENCRYPTED
           ELSE IF GetUint32(dataArray, 0, FALSE) # LOCAL_FILE_HEADER_SIGNATURE
           THEN ERR_LOCAL_FILE_HEADER_NOT_FOUND
           ELSE NoError)

\* Checks that take the empty string for a password.
getDataErrorEmptyPassword(this, dataArray, inputPassword) ==
    IF this.extraFieldAES.present
       /\ this.extraFieldAES.originalCompressionMethod # COMPRESSION_METHOD_AES
    THEN ERR_UNSUPPORTED_COMPRESSION
    ELSE IF this.extraFieldAES.present /\ this.extraFieldAES.strength # 3
    THEN ERR_UNSUPPORTED_ENCRYPTION
    ELSE IF this.compressionMethod # COMPRESSION_METHOD_STORE
            /\ this.compressionMethod # COMPRESSION_METHOD_DEFLATE
    THEN ERR_UNSUPPORTED_COMPRESSION
    ELSE IF GetUint32(dataArray, 0, FALSE) # LOCAL_FILE_HEADER_SIGNATURE
    THEN ERR_LOCAL_FILE_HEADER_NOT_FOUND
    ELSE With(readLocalDirectory(this, dataArray), LAMBDA local :
           IF local.err # NoError THEN local.err
           ELSE IF this.bitFlag.encrypted /\ local.directory.bitFlag.encrypted
                   /\ inputPassword = Undefined
           THEN ERR_ENCRYPTED
           ELSE NoError)

\* Lines 163-188: the checks of getData, in the order of the code; the
\* error thrown, NoError when none is.
getDataError(this, dataArray, inputPassword) ==
    IF this.extraFieldAES.present
       /\ this.extraFieldAES.originalCompressionMethod # COMPRESSION_METHOD_AES
    THEN ERR_UNSUPPORTED_COMPRESSION
    ELSE IF this.extraFieldAES.present /\ this.extraFieldAES.strength # 3
    THEN ERR_UNSUPPORTED_ENCRYPTION
    ELSE IF this.compressionMethod # COMPRESSION_METHOD_STORE
            /\ this.compressionMethod # COMPRESSION_METHOD_DEFLATE
    THEN ERR_UNSUPPORTED_COMPRESSION
    ELSE IF GetUint32(dataArray, 0, FALSE) # LOCAL_FILE_HEADER_SIGNATURE
    THEN ERR_LOCAL_FILE_HEADER_NOT_FOUND
    ELSE With(readLocalDirectory(this, dataArray), LAMBDA local :
           IF local.err # NoError THEN local.err
           ELSE IF this.bitFlag.encrypted /\ local.directory.bitFlag.encrypted
                   /\ Falsy(inputPassword)
           THEN ERR_ENCRYPTED
           ELSE NoError)

GetDataVerify ==
    /\ pc = "header"
    /\ LET this == entries[call.index]
           password == IF call.options.password = Undefined
                       THEN options.password ELSE call.options.password
           \* password && password.length && password
           inputPassword == password
       IN \E error \in {getDataError(this, call.dataArray, inputPassword)} :
          IF error # NoError
          THEN Fail(error) /\ UNCHANGED call
          ELSE \E local \in {readLocalDirectory(this, call.dataArray).directory} :
               /\ call' = [index |-> call.index, options |-> call.options,
                           dataArray |-> call.dataArray,
                           localDirectory |-> local,
                           inputPassword |-> inputPassword,
                           inputEncrypted |-> this.bitFlag.encrypted /\ local.bitFlag.encrypted,
                           dataOffset |-> AsInt(this.offset) + 30 + local.filenameLength
                                              + local.extraFieldLength]
               /\ pc' = "codec"
               /\ err' = NoError
    /\ UNCHANGED <<archive, layout, options, readerInitialized, seekParams, directoryInfo,
                   zip64, dataLength, filesLength, reads, entries, codec, writer>>

\* Lines 189-196: createCodec.
GetDataCreateCodec ==
    /\ pc = "codec"
    /\ LET this == entries[call.index]
       IN codec' = [created |-> TRUE,
                    inputPassword |-> call.inputPassword,
                    inputSigned |-> IF call.options.checkSignature = Undefined
                                    THEN options.checkSignature
                                    ELSE call.options.checkSignature,
                    inputSignature |-> this.signature,
                    inputCompressed |-> this.compressionMethod # 0,
                    inputEncrypted |-> call.inputEncrypted]
    /\ pc' = "writer"
    /\ UNCHANGED <<archive, layout, options, readerInitialized, seekParams, err, directoryInfo,
                   zip64, dataLength, filesLength, reads, entries, call, writer>>

\* Lines 197-199: writer.init().
GetDataInitWriter ==
    /\ pc = "writer"
    /\ writer' = [writer EXCEPT !.initialized = TRUE]
    /\ pc' = "process"
    /\ UNCHANGED <<archive, layout, options, readerInitialized, seekParams, err, directoryInfo,
                   zip64, dataLength, filesLength, reads, entries, call, codec>>

\* Lines 200-201: processData streams the compressedSize bytes at dataOffset
\* through the codec to the sink, one chunk after the other, and
\* writer.getData() ends the call.  The codec of an encrypted entry may
\* refuse the password.
ERR_INVALID_PASSORD == "Invalid pasword"

GetDataProcess ==
    /\ pc = "process"
    /\ LET size == AsInt(entries[call.index].compressedSize)
       IN IF ~CanRead(archive, call.dataOffset, size)
          THEN Fail(ReadError) /\ UNCHANGED writer
          ELSE \/ /\ writer' = [writer EXCEPT
                                  !.chunks = (size + ChunkSize - 1) \div ChunkSize,
                                  !.finished = TRUE]
                  /\ pc' = "done"
                  /\ err' = NoError
               \/ /\ call.inputEncrypted
                  /\ Fail(ERR_INVALID_PASSORD)
                  /\ UNCHANGED writer
    /\ UNCHANGED <<archive, layout, options, readerInitialized, seekParams, directoryInfo,
                   zip64, dataLength, filesLength, reads, entries, call, codec>>

NextData ==
    \/ Next
    \/ \E index \in 1..MaxEntries, password \in Passwords :
          GetDataRead(index, [NoOptions EXCEPT !.password = password])
    \/ GetDataVerify
    \/ GetDataCreateCodec
    \/ GetDataInitWriter
    \/ GetDataProcess

InitData ==
    \E lay \in DataLayouts, password \in Passwords :
        InitWith(lay, [NoOptions EXCEPT !.password = password])

SpecData == InitData /\ [][NextData]_vars

(***************************************************************************)
(* seekSignature on its own, over every small source.                      *)
(***************************************************************************)
SeekSignature ==
    /\ pc = "start"
    /\ \E sought \in {seekSignature(archive, seekParams.signature, seekParams.minimumBytes,
                                     seekParams.maximumLength)} :
          /\ directoryInfo' = sought.info
          /\ err' = sought.err
          /\ pc' = IF sought.err = NoError THEN "sought" ELSE "failed"
    /\ UNCHANGED <<archive, layout, options, readerInitialized, seekParams, zip64, dataLength,
                   filesLength, reads, entries, call, codec, writer>>

InitSeek ==
    \E source \in SeekSources, params \in SeekParams :
        InitState(source, Layout(<<>>, 0, "raw", TRUE, TRUE, source), NoOptions, params)

SpecSeek == InitSeek /\ [][SeekSignature]_vars

(***************************************************************************)
(* Properties.                                                             *)
(***************************************************************************)
Returned == pc = "entries"

Finished == pc \in {"entries", "failed"}

\* The TLV blocks of an extra-field region in the order they stand in it,
\* each with the part of its payload that lies inside the region; a block
\* counts once its 4-byte header is all there.
RECURSIVE TlvBlocks(_, _)
TlvBlocks(region, offset) ==
    IF offset + 4 > Len(region) THEN <<>>
    ELSE LET size == region[offset + 3] + 256 * region[offset + 4]
         IN <<[type |-> region[offset + 1] + 256 * region[offset + 2],
               data |-> SubSeq(region, offset + 5, Min(offset + 4 + size, Len(region)))]>>
            \o TlvBlocks(region, offset + 4 + size)

Occurrences(region, type) ==
    LET blocks == TlvBlocks(region, 0)
    IN {i \in 1..Len(blocks) : blocks[i].type = type}

SetMin(S) == CHOOSE x \in S : \A y \in S : x <= y

SetMax(S) == CHOOSE x \in S : \A y \in S : x >= y

FirstPayload(region, type) == TlvBlocks(region, 0)[SetMin(Occurrences(region, type))].data

LastPayload(region, type) == TlvBlocks(region, 0)[SetMax(Occurrences(region, type))].data

HasSentinel(rec) ==
    \/ rec.uncompressedSize = MAX_32_BITS
    \/ rec.compressedSize = MAX_32_BITS
    \/ rec.offsetSentinel

\* C1: when getEntries returns, the number of entries is the entry count
\* parsed from the EOCD (from the ZIP64 EOCD in ZIP64 mode), and entry i was
\* read from the i-th central file header of the central directory.
C1_CountAndOrder ==
    Returned =>
        /\ Len(entries) = filesLength
        /\ Len(entries) = layout.declared
        /\ \A i \in 1..Len(entries) :
              /\ i <= Len(layout.recs)
              /\ entries[i].at = CentralOffset(layout.recs, i)
              /\ entries[i].rawFilename = layout.recs[i].name

C1_Witness == Returned /\ zip64 /\ Len(entries) >= 2

\* C2 (as claimed): a record with a sentinel size or offset and no ZIP64
\* block makes getEntries fail with EXTRA_FIELD_ZIP64_NOT_FOUND, and no
\* returned entry holds the sentinel.
C2_SentinelNeedsZip64Block ==
    /\ (/\ Finished
        /\ layout.mode = "none" /\ layout.declared = 1 /\ Len(layout.recs) = 1
        /\ HasSentinel(layout.recs[1])
        /\ Occurrences(layout.recs[1].extra, EXTRAFIELD_TYPE_ZIP64) = {})
       => (pc = "failed" /\ err = ERR_EXTRA_FIELD_ZIP64_NOT_FOUND)
    /\ Returned =>
          \A i \in 1..Len(entries) :
              /\ entries[i].uncompressedSize # MAX_32_BITS
              /\ entries[i].compressedSize # MAX_32_BITS
              /\ entries[i].offset # MAX_32_BITS

\* The payload the entry keeps for each tag of its extra-field region, and
\* the payload each decoded view was made from.
KeepsPayload(entry, Payload(_, _)) ==
    /\ \A type \in {b.type : b \in {TlvBlocks(entry.rawExtraField, 0)[i] :
                                       i \in 1..Len(TlvBlocks(entry.rawExtraField, 0))}} :
          /\ MapHas(entry.extraField, type)
          /\ MapGet(entry.extraField, type) = Payload(entry.rawExtraField, type)
    /\ entry.extraFieldZip64.present =>
          entry.extraFieldZip64.data = Payload(entry.rawExtraField, EXTRAFIELD_TYPE_ZIP64)
    /\ entry.extraFieldUnicodePath.present =>
          entry.extraFieldUnicodePath.data
              = Payload(entry.rawExtraField, EXTRAFIELD_TYPE_UNICODE_PATH)
    /\ entry.extraFieldAES.present =>
          entry.extraFieldAES.data = Payload(entry.rawExtraField, EXTRAFIELD_TYPE_AES)

\* C3 (as claimed): of several blocks with the same tag, the entry keeps the
\* payload of the first.
C3_FirstOccurrenceWins ==
    Returned => \A i \in 1..Len(entries) : KeepsPayload(entries[i], FirstPayload)

\* C3 (amended): of several blocks with the same tag, the entry keeps the
\* payload of the last, in extra_field and in the decoded view of the tag.
C3_LastOccurrenceWins ==
    Returned => \A i \in 1..Len(entries) : KeepsPayload(entries[i], LastPayload)

C3_Witness ==
    /\ Returned
    /\ \E i \in 1..Len(entries) :
          /\ Cardinality(Occurrences(entries[i].rawExtraField, EXTRAFIELD_TYPE_ZIP64)) >= 2
          /\ FirstPayload(entries[i].rawExtraField, EXTRAFIELD_TYPE_ZIP64)
                # LastPayload(entries[i].rawExtraField, EXTRAFIELD_TYPE_ZIP64)
          /\ entries[i].extraFieldZip64.present

\* An extra-field region with a TLV header cut short, a declared size that
\* runs past its end, or a Unicode Path or AES block shorter than its
\* decoder reads.
RECURSIVE TlvEnd(_, _)
TlvEnd(region, offset) ==
    IF offset + 4 > Len(region) THEN offset
    ELSE TlvEnd(region, offset + 4 + region[offset + 3] + 256 * region[offset + 4])

Malformed(region) ==
    \/ TlvEnd(region, 0) # Len(region)
    \/ \E i \in 1..Len(TlvBlocks(region, 0)) :
          LET block == TlvBlocks(region, 0)[i]
          IN \/ block.type = EXTRAFIELD_TYPE_UNICODE_PATH /\ Len(block.data) < 5
             \/ block.type = EXTRAFIELD_TYPE_AES /\ Len(block.data) < 7

\* C4 (as claimed): a malformed extra-field region in a record whose fixed
\* header is well formed does not make getEntries fail; the entry is
\* returned.
C4_MalformedExtraTolerated ==
    (/\ Finished
     /\ layout.mode = "none" /\ layout.declared = 1 /\ Len(layout.recs) = 1
     /\ ~HasSentinel(layout.recs[1])
     /\ Malformed(layout.recs[1].extra))
    => (Returned /\ Len(entries) = 1)

\* C5 (as claimed): in ZIP64 mode a missing locator signature yields
\* EOCDR_LOCATOR_ZIP64_NOT_FOUND and a missing ZIP64 EOCD signature yields
\* EOCDR_ZIP64_NOT_FOUND.
SignatureMissing(read, signature) ==
    /\ CanRead(archive, read[1], read[2])
    /\ SubSeq(archive, read[1] + 1, read[1] + 4) # signature

C5_Zip64ErrorNames ==
    /\ (pc = "failed" /\ zip64 /\ Len(reads) = 1
        /\ SignatureMissing(reads[1], ZIP64_END_OF_CENTRAL_DIR_LOCATOR_SIGNATURE))
       => err = ERR_EOCDR_LOCATOR_ZIP64_NOT_FOUND
    /\ (pc = "failed" /\ zip64 /\ Len(reads) = 2
        /\ SignatureMissing(reads[2], ZIP64_END_OF_CENTRAL_DIR_SIGNATURE))
       => err = ERR_EOCDR_ZIP64_NOT_FOUND

\* C6: seekSignature fails with BAD_FORMAT on a source shorter than
\* minimumBytes; otherwise it returns the minimumBytes bytes at the greatest
\* position of the signature in the window, and fails with EOCDR_NOT_FOUND
\* when the signature stands nowhere in the window.
SeekPositions ==
    LET size == Len(archive)
        low == size - Min(seekParams.minimumBytes + seekParams.maximumLength, size)
    IN {p \in low..(size - seekParams.minimumBytes) :
            SubSeq(archive, p + 1, p + 4) = seekParams.signature}

C6_SeekSignatureLatest ==
    pc \in {"sought", "failed"} =>
        IF Len(archive) < seekParams.minimumBytes THEN pc = "failed" /\ err = ERR_BAD_FORMAT
        ELSE IF SeekPositions # {}
        THEN /\ pc = "sought"
             /\ err = NoError
             /\ directoryInfo.buffer
                   = SubSeq(archive, SetMax(SeekPositions) + 1,
                            SetMax(SeekPositions) + seekParams.minimumBytes)
        ELSE pc = "failed" /\ err = ERR_EOCDR_NOT_FOUND

C6_Witness ==
    /\ pc = "sought"
    /\ Cardinality(SeekPositions) >= 2
    /\ directoryInfo.offset < Len(archive) - seekParams.minimumBytes

\* getData has read the local file header of the entry of the call and has
\* run its checks.
Verified == call.index # 0 /\ "dataArray" \in DOMAIN call /\ pc # "header"

LocalSignatureMissing ==
    SubSeq(archive, AsInt(entries[call.index].offset) + 1,
           AsInt(entries[call.index].offset) + 4) # LOCAL_FILE_HEADER_SIGNATURE

PassesMethodChecks(this) ==
    /\ this.extraFieldAES.present =>
          /\ this.extraFieldAES.originalCompressionMethod = COMPRESSION_METHOD_AES
          /\ this.extraFieldAES.strength = 3
    /\ this.compressionMethod \in {COMPRESSION_METHOD_STORE, COMPRESSION_METHOD_DEFLATE}

\* C7 (as claimed): when the 4 bytes at entry.offset are not the local file
\* header signature, getData fails with LOCAL_FILE_HEADER_NOT_FOUND whatever
\* the compression method or AES extra field of the entry.
C7_LocalHeaderFirst ==
    (Verified /\ LocalSignatureMissing)
    => (pc = "failed" /\ err = ERR_LOCAL_FILE_HEADER_NOT_FOUND)

\* C7 (amended): when the entry passes the AES and compression-method checks
\* and the 4 bytes at entry.offset are not the local file header signature,
\* getData fails with LOCAL_FILE_HEADER_NOT_FOUND; an entry that does not
\* pass them fails with the error of the check it does not pass.
C7_LocalHeaderAfterMethodChecks ==
    (Verified /\ LocalSignatureMissing) =>
        /\ pc = "failed"
        /\ IF PassesMethodChecks(entries[call.index])
           THEN err = ERR_LOCAL_FILE_HEADER_NOT_FOUND
           ELSE err \in {ERR_UNSUPPORTED_COMPRESSION, ERR_UNSUPPORTED_ENCRYPTION}

C7_Witness ==
    /\ Verified /\ LocalSignatureMissing
    /\ entries[call.index].extraFieldAES.present
    /\ entries[call.index].bitFlag.encrypted
    /\ pc = "failed" /\ err = ERR_LOCAL_FILE_HEADER_NOT_FOUND

\* The password of the call: the one of the call's options, else the one of
\* the reader's options; none when it is undefined or empty.
NoPassword ==
    LET password == IF call.options.password = Undefined
                    THEN options.password ELSE call.options.password
    IN password = Undefined \/ password = ""

NothingStarted == ~codec.created /\ ~writer.initialized /\ writer.chunks = 0

\* C8 (as claimed): getData on an entry whose encrypted field is true, with
\* no password, fails with ENCRYPTED before a codec is created, the sink is
\* initialised or a chunk is read.  Stated for the entries that no earlier
\* check of getData rejects.
C8_EncryptedNeedsPassword ==
    (/\ Verified /\ NoPassword
     /\ entries[call.index].encrypted
     /\ PassesMethodChecks(entries[call.index])
     /\ ~LocalSignatureMissing)
    => (pc = "failed" /\ err = ERR_ENCRYPTED /\ NothingStarted)

\* C8 (amended): getData with no password fails with ENCRYPTED, before a
\* codec is created, the sink is initialised or a chunk is read, when the
\* encrypted bit is set in the central header and in the local file header
\* and the checks before it (AES, compression method, local signature)
\* pass.
LocalEncrypted ==
    BitSet(GetUint16(call.dataArray, 6), 1)

C8_EncryptedBothFlags ==
    (/\ Verified /\ NoPassword
     /\ entries[call.index].encrypted
     /\ PassesMethodChecks(entries[call.index])
     /\ ~LocalSignatureMissing
     /\ LocalEncrypted)
    => (pc = "failed" /\ err = ERR_ENCRYPTED /\ NothingStarted)

C8_Witness ==
    /\ Verified /\ NoPassword
    /\ entries[call.index].encrypted /\ LocalEncrypted
    /\ pc = "failed" /\ err = ERR_ENCRYPTED /\ NothingStarted

\* The name of entry i as the charset of its header decodes the raw bytes,
\* before a Unicode Path extra field replaces it.
DecodedName(i) ==
    decodeString(entries[i].rawFilename,
                 IF BitSet(layout.recs[i].flags, 2048) THEN CHARSET_UTF8
                 ELSE IF options.filenameEncoding \in {Undefined, ""} THEN CHARSET_WIN_1252
                 ELSE options.filenameEncoding)

DirectoryBit(i) == BitSet(layout.recs[i].attribute, 16)

FinalSlash(name) == Len(name) > 0 /\ name[Len(name)] = Slash

\* C9 (as claimed): an entry is a directory exactly when bit 0x10 of the low
\* byte of its external attributes is set or its final filename ends with
\* "/".
C9_DirectoryFinalName ==
    Returned => \A i \in 1..Len(entries) :
        entries[i].directory <=> (DirectoryBit(i) \/ FinalSlash(entries[i].filename))

\* C9 (amended): an entry is a directory exactly when the bit is set or the
\* name decoded from the raw filename bytes ends with "/"; a Unicode Path
\* override of the filename does not change it.
C9_DirectoryDecodedName ==
    Returned => \A i \in 1..Len(entries) :
        entries[i].directory <=> (DirectoryBit(i) \/ FinalSlash(DecodedName(i)))

C9_Witness ==
    /\ Returned
    /\ \E i \in 1..Len(entries) :
          /\ entries[i].extraFieldUnicodePath.present
          /\ entries[i].filename # DecodedName(i)
          /\ FinalSlash(entries[i].filename) # FinalSlash(DecodedName(i))
          /\ ~DirectoryBit(i)

\* C10 (as claimed): in ZIP64 mode the locator is read as the 20 bytes that
\* end where the selected EOCD signature starts, whatever the length of the
\* archive comment.
C10_LocatorBeforeEocd ==
    (zip64 /\ Len(reads) >= 1) =>
        reads[1] = <<directoryInfo.offset + directoryInfo.index - 20, 20>>

\* C11: with or without ZIP64, when the start offset getEntries has computed
\* for the central directory is negative or not less than the size of the
\* archive, getEntries fails with BAD_FORMAT and does not read the central
\* directory.
C11_MisplacedDirectoryFails ==
    [][(pc = "directory" /\ (dataLength < 0 \/ dataLength >= Len(archive)))
       => (pc' = "failed" /\ err' = ERR_BAD_FORMAT /\ reads' = reads)]_vars

C11_Witness ==
    /\ zip64 /\ Len(reads) = 2
    /\ dataLength < 0
    /\ pc = "failed" /\ err = ERR_BAD_FORMAT

=============================================================================
